---- MODULE Spec2Model ----
(***************************************************************************)
(* Model of prtpy's generalized Karmarkar-Karp partitioning algorithm      *)
(* (partitioning/kk.py) as it is called through the adaptor                *)
(* prtpy.partition (partitioning/adaptors.py).                             *)
(*                                                                         *)
(* A Bins object is a record [num, valueof, bins, sums]; objects live in   *)
(* the object store objs (object id -> record) because kk mutates the      *)
(* first popped partition in place.  The heap `partitions` is the set of   *)
(* tuples pushed and not yet popped; heappop removes the tuple that is     *)
(* least in Python's tuple order.  List indices are 0-based as in the      *)
(* source; sequence positions are index + 1.                               *)
(***************************************************************************)
EXTENDS Integers, Sequences, FiniteSets, TLC

VARIABLES arg_items, arg_valueof, numbins, algorithm,
          pc, err, items, valueof, objs, partitions, heap_count,
          it, k, i, bin1, bin2, final_partition, result_kind, extract,
          run, trace, first,
          popped, bin1_before, dead

vars == <<arg_items, arg_valueof, numbins, algorithm,
          pc, err, items, valueof, objs, partitions, heap_count,
          it, k, i, bin1, bin2, final_partition, result_kind, extract,
          run, trace, first,
          popped, bin1_before, dead>>

(* ------------------------------ bounds --------------------------------- *)
MaxBins == 3
MaxLen == 4
MaxItem == 1
\* longest item sequence of the calls whose termination is checked
MaxLenFair == 3

\* items are small integers; one negative item exercises values that the
\* input contract forbids
ItemSet == {0 - 1} \cup (0..MaxItem)
\* the value a dict input gives to a key
DictValue(key) == MaxItem - key

(* ------------------------------ helpers -------------------------------- *)
SeqsUpTo(S, n) == UNION {[1..m -> S] : m \in 0..n}

IsInjective(s) == \A a, b \in DOMAIN s : s[a] = s[b] => a = b

RECURSIVE SumSeq(_)
SumSeq(s) == IF s = <<>> THEN 0 ELSE s[1] + SumSeq(Tail(s))

MaxOf(s) == CHOOSE x \in {s[j] : j \in DOMAIN s} : \A j \in DOMAIN s : s[j] <= x
MinOf(s) == CHOOSE x \in {s[j] : j \in DOMAIN s} : \A j \in DOMAIN s : x <= s[j]

\* a list input: the items themselves; a dict input: <<key, value>> pairs in
\* insertion order, keys distinct
ListInputs == {[isdict |-> FALSE, elems |-> s] : s \in SeqsUpTo(ItemSet, MaxLen)}
DictInputs ==
  {[isdict |-> TRUE, elems |-> [j \in DOMAIN ks |-> <<ks[j], DictValue(ks[j])>>]] :
     ks \in {ks0 \in SeqsUpTo(ItemSet, MaxLen) : IsInjective(ks0)}}

dict_keys(d) == [j \in DOMAIN d.elems |-> d.elems[j][1]]
dict_getitem(d, key) ==
  d.elems[CHOOSE j \in DOMAIN d.elems : d.elems[j][1] = key][2]

\* value functions are named; "None" is the absent argument, "user" a
\* function the caller supplies
ValueOf(name, item) ==
  CASE name = "identity" -> item
    [] name = "getitem"  -> dict_getitem(arg_items, item)
    [] name = "user"     -> item + 1

(* ---------------------- Bins operations (prtpy.Bins) ------------------- *)
create_empty_bins(num, vof) ==
  [num |-> num, valueof |-> vof,
   bins |-> [b \in 1..num |-> <<>>],
   sums |-> [b \in 1..num |-> 0]]

\* inplace=False: the result is a new object, the receiver is untouched
add_item_to_bin(self, item, bin_index) ==
  [self EXCEPT !.bins[bin_index + 1] = Append(@, item),
               !.sums[bin_index + 1] = @ + ValueOf(self.valueof, item)]

combine_bins(self, ibin, other_bin, other_ibin) ==
  [self EXCEPT !.bins[ibin + 1] = @ \o other_bin.bins[other_ibin + 1],
               !.sums[ibin + 1] = @ + other_bin.sums[other_ibin + 1]]

\* position of bin b in the stable ascending order of the sums
sort_rank(sums, b) ==
  1 + Cardinality({c \in DOMAIN sums :
                     sums[c] < sums[b] \/ (sums[c] = sums[b] /\ c < b)})
sorted_indices(sums) ==
  [r \in DOMAIN sums |-> CHOOSE b \in DOMAIN sums : sort_rank(sums, b) = r]

sort(self) ==
  LET ix == sorted_indices(self.sums)
  IN [self EXCEPT !.sums = [r \in DOMAIN ix |-> self.sums[ix[r]]],
                  !.bins = [r \in DOMAIN ix |-> self.bins[ix[r]]]]

(* --------------------------- adaptors.partition ------------------------ *)
partition_item_names(a_items) ==
  IF a_items.isdict THEN dict_keys(a_items) ELSE a_items.elems

\* mutant: a dict is treated like a list
partition_valueof_list(a_items, a_valueof) ==
  IF a_valueof = "None" THEN "identity" ELSE a_valueof
partition_valueof(a_items, a_valueof) ==
  IF a_items.isdict
    THEN (IF a_valueof = "None" THEN "getitem" ELSE a_valueof)
    ELSE (IF a_valueof = "None" THEN "identity" ELSE a_valueof)

\* mutant: one bin too many
partition_create_bins_more(nb, vof) == create_empty_bins(nb + 1, vof)
\* mutant: the value function is not handed to the bins
partition_create_bins_default(nb, vof) == create_empty_bins(nb, "identity")
partition_create_bins(nb, vof) == create_empty_bins(nb, vof)

\* isinstance(bins, Bins) chooses the conversion of the result
partition_extract(kind) ==
  IF kind = "Bins" THEN "extract_output_from_bins"
                   ELSE "extract_output_from_binsarray"

(* --------------------------------- kk ---------------------------------- *)
\* Python's tuple order on (key, count, partition, sums): the first two
\* components decide
\* mutant: tuples without the heap_count component
tuple_lt_key_only(e, f) == e.key < f.key
tuple_lt(e, f) ==
  e.key < f.key \/ (e.key = f.key /\ e.count < f.count)

\* the tuples heappop may return
heap_min(h) == {e \in h : \A f \in h \ {e} : ~ tuple_lt(f, e)}

\* mutant: seeds the item in the first bin
kk_seed_index_first(num) == 0
kk_seed_index(num) == num - 1

\* mutant: the item is added to the caller's bins
kk_seed_inplace_true == TRUE
\* inplace=False in the seeding call
kk_seed_inplace == FALSE

\* mutant: the sign of the key is lost
kk_seed_key_positive(v) == v
kk_seed_key(v) == 0 - v

\* mutant: the counter is not advanced
kk_next_count_stuck(c) == c
\* next(heap_count)
kk_next_count(c) == c + 1

\* mutant: the largest sum alone is the objective
kk_merged_key_max(sums) == 0 - MaxOf(sums)
\* diff = max(bin1.sums) - min(bin1.sums), pushed as -diff
kk_merged_key(sums) == 0 - (MaxOf(sums) - MinOf(sums))

\* mutant: the second popped partition is pushed
kk_pushed_bin_second(b1, b2) == b2
kk_pushed_bin(b1, b2) == b1

\* mutant: one merge iteration too many
kk_num_merges_extra(n) == n
kk_num_merges(n) == n - 1

\* mutant: bins are combined from the smallest up
kk_ibin_up(num, j) == j
kk_ibin(num, j) == num - j - 1

\* mutant: pairs equal ranks (largest with largest)
kk_other_ibin_same(num, j) == num - j - 1
\* mutant: counts the other partition's bins from 1
kk_other_ibin_shifted(num, j) == (j + 1) % num
kk_other_ibin(num, j) == j

\* mutant: the last pair of bins is not combined
kk_combine_range_short(num) == 0..(num - 2)
kk_combine_range(num) == 0..(num - 1)

\* the algorithms partition() may be given: kk, or one that returns an
\* array of bins instead of a Bins object
Algorithms == {"kk", "other"}

Init ==
  /\ arg_items \in ListInputs \cup DictInputs
  /\ arg_valueof \in {"None", "user"}
  /\ numbins \in 1..MaxBins
  /\ algorithm \in Algorithms
  /\ pc = "start"
  /\ err = "none"
  /\ items = <<>>
  /\ valueof = "None"
  /\ objs = <<>>
  /\ partitions = {}
  /\ heap_count = 0
  /\ it = 0
  /\ k = 0
  /\ i = 0
  /\ bin1 = 0
  /\ bin2 = 0
  /\ final_partition = 0
  /\ result_kind = "none"
  /\ extract = "none"
  /\ run = 1
  /\ trace = <<>>
  /\ first = [bins |-> <<>>, sums |-> <<>>, trace |-> <<>>]
  /\ popped = <<>>
  /\ bin1_before = <<>>
  /\ dead = {}

\* objs is a sequence of Bins objects; object id o is objs[o + 1]; the
\* caller's template `bins` is object 0
Obj(o) == objs[o + 1]
bins == Obj(0)

\* history of the current merge iteration and of the finished ones
history == <<popped, bin1_before, dead>>

\* adaptors.partition up to the call of the algorithm
partition ==
  /\ pc = "start"
  /\ items' = partition_item_names(arg_items)
  /\ valueof' = partition_valueof(arg_items, arg_valueof)
  /\ objs' = <<partition_create_bins(numbins, valueof')>>
  /\ partitions' = {}
  /\ heap_count' = 0
  /\ it' = 0
  /\ pc' = IF algorithm = "kk" THEN "seed" ELSE "other"
  /\ UNCHANGED <<arg_items, arg_valueof, numbins, algorithm, err, k, i,
                 bin1, bin2, final_partition, result_kind, extract, run,
                 trace, first, history>>

\* an algorithm that returns its bins as an array
other_algorithm ==
  /\ pc = "other"
  /\ result_kind' = "array"
  /\ pc' = "done_other"
  /\ UNCHANGED <<arg_items, arg_valueof, numbins, algorithm, err, items,
                 valueof, objs, partitions, heap_count, it, k, i, bin1, bin2,
                 final_partition, extract, run, trace, first, history>>

\* one iteration of `for item in items`
ForItem ==
  /\ pc = "seed"
  /\ it < Len(items)
  /\ LET item == items[it + 1]
         new_bin == add_item_to_bin(bins, item, kk_seed_index(bins.num))
         new_id == IF kk_seed_inplace THEN 0 ELSE Len(objs)
     IN /\ objs' = IF kk_seed_inplace
                     THEN [objs EXCEPT ![1] = new_bin]
                     ELSE Append(objs, new_bin)
        /\ partitions' = partitions \cup
             {[key |-> kk_seed_key(ValueOf(valueof, item)),
               count |-> heap_count, bin |-> new_id, sums |-> new_bin.sums]}
  /\ heap_count' = kk_next_count(heap_count)
  /\ it' = it + 1
  /\ UNCHANGED <<arg_items, arg_valueof, numbins, algorithm, pc, err, items,
                 valueof, k, i, bin1, bin2, final_partition, result_kind,
                 extract, run, trace, first, history>>

\* the seeding loop is exhausted; the merge loop starts
ForItemEnd ==
  /\ pc = "seed"
  /\ it = Len(items)
  /\ pc' = "loop"
  /\ k' = 0
  /\ UNCHANGED <<arg_items, arg_valueof, numbins, algorithm, err, items,
                 valueof, objs, partitions, heap_count, it, i, bin1, bin2,
                 final_partition, result_kind, extract, run, trace, first,
                 history>>

\* the two heappops of one merge iteration; heappop of an empty heap raises
Pop2 ==
  /\ pc = "loop"
  /\ k < kk_num_merges(Len(items))
  /\ IF Cardinality(partitions) < 2
       THEN /\ pc' = "raised"
            /\ err' = "IndexError"
            /\ UNCHANGED <<partitions, bin1, bin2, i, trace, popped,
                           bin1_before>>
       ELSE \E e1 \in heap_min(partitions) :
              \E e2 \in heap_min(partitions \ {e1}) :
                /\ partitions' = partitions \ {e1, e2}
                /\ bin1' = e1.bin
                /\ bin2' = e2.bin
                /\ i' = 0
                /\ trace' = Append(trace, <<e1.count, e2.count>>)
                /\ popped' = <<e1, e2>>
                /\ bin1_before' = Obj(e1.bin)
                /\ pc' = "combine"
                /\ err' = err
  /\ UNCHANGED <<arg_items, arg_valueof, numbins, algorithm, items, valueof,
                 objs, heap_count, it, k, final_partition, result_kind,
                 extract, run, first, dead>>

\* one iteration of `for i in range(bins.num)`: bin1 is mutated in place
Combine ==
  /\ pc = "combine"
  /\ i \in kk_combine_range(bins.num)
  /\ objs' = [objs EXCEPT ![bin1 + 1] =
                combine_bins(@, kk_ibin(bins.num, i), Obj(bin2),
                             kk_other_ibin(bins.num, i))]
  /\ i' = i + 1
  /\ UNCHANGED <<arg_items, arg_valueof, numbins, algorithm, pc, err, items,
                 valueof, partitions, heap_count, it, k, bin1, bin2,
                 final_partition, result_kind, extract, run, trace, first,
                 history>>

\* bin1.sort(), the objective and the heappush that end a merge iteration
SortPush ==
  /\ pc = "combine"
  /\ i \notin kk_combine_range(bins.num)
  /\ LET sorted == sort(Obj(bin1))
         pushed == kk_pushed_bin(bin1, bin2)
     IN /\ objs' = [objs EXCEPT ![bin1 + 1] = sorted]
        /\ partitions' = partitions \cup
             {[key |-> kk_merged_key(sorted.sums), count |-> heap_count,
               bin |-> pushed, sums |-> sorted.sums]}
  /\ heap_count' = kk_next_count(heap_count)
  /\ k' = k + 1
  /\ pc' = "loop"
  /\ dead' = dead \cup {[id |-> bin2, obj |-> Obj(bin2)]}
  /\ UNCHANGED <<arg_items, arg_valueof, numbins, algorithm, err, items,
                 valueof, it, i, bin1, bin2, final_partition, result_kind,
                 extract, run, trace, first, popped, bin1_before>>

\* partitions[0] is the heap's root; indexing an empty list raises
Final ==
  /\ pc = "loop"
  /\ k >= kk_num_merges(Len(items))
  /\ IF partitions = {}
       THEN /\ pc' = "raised"
            /\ err' = "IndexError"
            /\ UNCHANGED <<final_partition, result_kind>>
       ELSE \E e \in heap_min(partitions) :
              /\ final_partition' = e.bin
              /\ result_kind' = "Bins"
              /\ pc' = "done"
              /\ err' = err
  /\ UNCHANGED <<arg_items, arg_valueof, numbins, algorithm, items, valueof,
                 objs, partitions, heap_count, it, k, i, bin1, bin2, extract,
                 run, trace, first, history>>

\* adaptors.partition after the algorithm has returned
partition_return ==
  /\ pc \in {"done", "done_other"}
  /\ extract' = partition_extract(result_kind)
  /\ pc' = "returned"
  /\ UNCHANGED <<arg_items, arg_valueof, numbins, algorithm, err, items,
                 valueof, objs, partitions, heap_count, it, k, i, bin1, bin2,
                 final_partition, result_kind, run, trace, first, history>>

\* the caller invokes partition() again with the same arguments
Rerun ==
  /\ pc = "returned"
  /\ algorithm = "kk"
  /\ run = 1
  /\ run' = 2
  /\ first' = [bins |-> Obj(final_partition).bins,
               sums |-> Obj(final_partition).sums, trace |-> trace]
  /\ pc' = "start"
  /\ items' = <<>>
  /\ valueof' = "None"
  /\ objs' = <<>>
  /\ partitions' = {}
  /\ heap_count' = 0
  /\ it' = 0
  /\ k' = 0
  /\ i' = 0
  /\ bin1' = 0
  /\ bin2' = 0
  /\ final_partition' = 0
  /\ result_kind' = "none"
  /\ extract' = "none"
  /\ trace' = <<>>
  /\ popped' = <<>>
  /\ bin1_before' = <<>>
  /\ dead' = {}
  /\ UNCHANGED <<arg_items, arg_valueof, numbins, algorithm, err>>

\* the steps of one call of kk: partition() up to the call, then kk
NextKK ==
  \/ partition
  \/ ForItem
  \/ ForItemEnd
  \/ Pop2
  \/ Combine
  \/ SortPush
  \/ Final

\* one call of partition(algorithm=..., ...)
Next ==
  \/ NextKK
  \/ other_algorithm
  \/ partition_return

Spec == Init /\ [][Next]_vars

\* a call of kk, which runs in one thread that is never suspended for ever
InitKK ==
  /\ Init
  /\ algorithm = "kk"
  /\ Len(arg_items.elems) <= MaxLenFair

FairSpec == InitKK /\ [][NextKK]_vars /\ WF_vars(NextKK)

\* two calls with the same arguments, one after the other
NextRerun ==
  \/ Next
  \/ Rerun

SpecRerun == Init /\ [][NextRerun]_vars

(* ------------------------- properties of kk ---------------------------- *)
ItemCount(s, x) == Cardinality({j \in DOMAIN s : s[j] = x})

\* occurrences of item x in all bins of partition p
PartitionCount(p, x) ==
  SumSeq([b \in DOMAIN p.bins |-> ItemCount(p.bins[b], x)])

RECURSIVE HeapCount(_, _)
HeapCount(h, x) ==
  IF h = {} THEN 0
  ELSE LET e == CHOOSE e \in h : TRUE
       IN PartitionCount(Obj(e.bin), x) + HeapCount(h \ {e}, x)

PartitionSize(p) == SumSeq([b \in DOMAIN p.bins |-> Len(p.bins[b])])

IsSorted(s) == \A a, b \in DOMAIN s : a < b => s[a] <= s[b]

BinValue(p, b) ==
  SumSeq([j \in DOMAIN p.bins[b] |-> ValueOf(valueof, p.bins[b][j])])

EmptyBins(p) ==
  {b \in DOMAIN p.bins : p.bins[b] = <<>> /\ p.sums[b] = 0}

HasBins(p, n) == Len(p.bins) = n /\ Len(p.sums) = n

\* C1: conservation. For a non-empty item sequence, after seeding and after
\* every merge iteration the bins of the partitions in the heap hold, taken
\* together, exactly the input items (as a multiset), and so does the
\* returned partition.
C1_Conservation ==
  Len(items) >= 1 =>
    /\ pc = "loop" =>
         \A x \in ItemSet : HeapCount(partitions, x) = ItemCount(items, x)
    /\ pc = "done" =>
         \A x \in ItemSet :
           PartitionCount(Obj(final_partition), x) = ItemCount(items, x)

C1_Witness ==
  /\ pc = "loop"
  /\ k >= 1
  /\ Cardinality(partitions) >= 2
  /\ numbins >= 2
  /\ \E a, b \in DOMAIN items : a # b /\ items[a] = items[b]

\* C2: an empty items sequence ends kk with an EmptyInput error; kk neither
\* returns a partition nor raises another error.
C2_EmptyInputRejected ==
  (Len(arg_items.elems) = 0 /\ pc \in {"raised", "done"}) =>
    (pc = "raised" /\ err = "EmptyInput")

\* C3: when valueof is negative on some item, kk raises InvalidValue before
\* any partition is seeded or pushed; it never seeds or merges.
C3_InvalidValueRejected ==
  (\E j \in DOMAIN items : ValueOf(valueof, items[j]) < 0) =>
    /\ partitions = {}
    /\ Len(objs) <= 1
    /\ pc \notin {"loop", "combine", "done"}
    /\ pc = "raised" => err = "InvalidValue"

\* C4 (safety part): with n >= 1 items the heap holds n - k entries at the
\* head of merge iteration k, two fewer while the iteration combines, one
\* entry when the result is read after exactly n - 1 iterations, and no pop
\* ever finds fewer than two entries.
C4_QueueSize ==
  Len(arg_items.elems) >= 1 =>
    /\ pc = "seed" => Cardinality(partitions) = it
    /\ pc = "loop" =>
         /\ Cardinality(partitions) = Len(items) - k
         /\ k <= Len(items) - 1
    /\ pc = "combine" => Cardinality(partitions) = Len(items) - k - 2
    /\ pc = "done" =>
         /\ k = Len(items) - 1
         /\ Len(trace) = Len(items) - 1
         /\ Cardinality(partitions) = 1
    /\ pc # "raised"

\* C4: termination and queue size. kk on n >= 1 items always terminates,
\* after exactly n - 1 merge iterations, with the heap sizes of C4_QueueSize.
C4_Termination ==
  /\ [] C4_QueueSize
  /\ (pc = "seed" /\ Len(items) >= 1) ~> (pc = "done")

C4_Witness ==
  /\ pc = "done"
  /\ Len(items) = MaxLenFair
  /\ k = MaxLenFair - 1

\* C5: every partition in the heap has its sums in non-decreasing order, and
\* so has the returned partition, for every non-empty input.
C5_Sorted ==
  /\ \A e \in partitions : IsSorted(Obj(e.bin).sums)
  /\ pc = "done" => IsSorted(Obj(final_partition).sums)

\* C6: bin count invariance. Every partition in the heap, and the returned
\* one, has exactly numbins bins and numbins sums; at least numbins minus
\* (number of its items) of them are empty with sum 0.
C6_BinCount ==
  /\ \A e \in partitions :
       /\ HasBins(Obj(e.bin), numbins)
       /\ Cardinality(EmptyBins(Obj(e.bin)))
            >= numbins - PartitionSize(Obj(e.bin))
  /\ pc = "done" =>
       /\ HasBins(Obj(final_partition), numbins)
       /\ Cardinality(EmptyBins(Obj(final_partition)))
            >= numbins - Len(items)

C6_Witness ==
  /\ pc = "done"
  /\ Len(items) >= 2
  /\ numbins > Len(items)
  /\ EmptyBins(Obj(final_partition)) # {}

\* C7: single-item identity. With one item x kk does no merge and returns
\* the seeded partition: x alone in bin numbins - 1, all other bins empty
\* with sum 0.
C7_SingleItem ==
  (Len(items) = 1 /\ pc = "done") =>
    /\ k = 0
    /\ trace = <<>>
    /\ final_partition = 1
    /\ Obj(final_partition).bins =
         [b \in 1..numbins |-> IF b = numbins THEN <<items[1]>> ELSE <<>>]
    /\ Obj(final_partition).sums =
         [b \in 1..numbins |->
            IF b = numbins THEN ValueOf(valueof, items[1]) ELSE 0]

C7_Witness ==
  /\ Len(items) = 1
  /\ pc = "done"
  /\ numbins >= 2

\* C8: two items, two bins. For numbins = 2, the identity value function
\* and two different items a, b, kk does exactly one merge and returns the
\* smaller item alone in bin 0 and the larger alone in bin 1.
C8_TwoItems ==
  ( /\ pc = "done"
    /\ numbins = 2
    /\ valueof = "identity"
    /\ Len(items) = 2
    /\ items[1] # items[2] ) =>
    LET lo == IF items[1] < items[2] THEN items[1] ELSE items[2]
        hi == IF items[1] < items[2] THEN items[2] ELSE items[1]
    IN /\ k = 1
       /\ Len(trace) = 1
       /\ Obj(final_partition).bins = << <<lo>>, <<hi>> >>
       /\ Obj(final_partition).sums = <<lo, hi>>

C8_Witness ==
  /\ pc = "done"
  /\ numbins = 2
  /\ valueof = "identity"
  /\ Len(items) = 2
  /\ items[1] < items[2]

\* C9: determinism. A second call with the same arguments pops the same
\* tuples in the same order and returns the same bins and sums as the first
\* call, also when keys are equal.
C9_Determinism ==
  (run = 2 /\ pc = "done") =>
    /\ trace = first.trace
    /\ Obj(final_partition).bins = first.bins
    /\ Obj(final_partition).sums = first.sums

C9_Witness ==
  /\ run = 2
  /\ pc = "done"
  /\ Len(items) >= 3
  /\ \E a, b \in DOMAIN items :
       a # b /\ ValueOf(valueof, items[a]) = ValueOf(valueof, items[b])

\* C10: sum consistency. For every partition in the heap, after seeding and
\* after every merge step, each bin's sum is the sum of valueof over the
\* items of that bin.
C10_SumConsistency ==
  \A e \in partitions :
    \A b \in DOMAIN Obj(e.bin).bins :
      Obj(e.bin).sums[b] = BinValue(Obj(e.bin), b)

C10_Witness ==
  /\ pc = "loop"
  /\ k >= 1
  /\ valueof # "identity"
  /\ \E e \in partitions :
       \E b \in DOMAIN Obj(e.bin).bins :
         Len(Obj(e.bin).bins[b]) >= 2 /\ Obj(e.bin).sums[b] > 0

(* --------------------- properties of partition() ----------------------- *)
\* C11: adaptor input normalization. The algorithm is handed the dict's keys
\* with the dict lookup as value function (dict, no valueof), the items
\* with the identity (no dict, no valueof), or the caller's valueof
\* unchanged; the empty bins have numbins bins; the result is converted by
\* extract_output_from_bins exactly when it is a Bins, else by
\* extract_output_from_binsarray.
C11_Normalization ==
  pc # "start" =>
    /\ Len(items) = Len(arg_items.elems)
    /\ \A j \in DOMAIN items :
         items[j] = IF arg_items.isdict THEN arg_items.elems[j][1]
                                        ELSE arg_items.elems[j]
    /\ arg_valueof # "None" => valueof = arg_valueof
    /\ (arg_valueof = "None" /\ arg_items.isdict) =>
         \A j \in DOMAIN items :
           ValueOf(valueof, items[j]) = arg_items.elems[j][2]
    /\ (arg_valueof = "None" /\ ~ arg_items.isdict) =>
         \A j \in DOMAIN items : ValueOf(valueof, items[j]) = items[j]
    /\ bins.num = numbins
    /\ bins.valueof = valueof
    /\ pc = "seed" /\ it = 0 => bins = create_empty_bins(numbins, valueof)
    /\ pc = "returned" =>
         /\ result_kind \in {"Bins", "array"}
         /\ extract = "extract_output_from_bins" <=> result_kind = "Bins"
         /\ extract = "extract_output_from_binsarray" <=> result_kind # "Bins"
         /\ algorithm = "kk" => result_kind = "Bins"

C11_Witness ==
  /\ pc = "returned"
  /\ algorithm = "kk"
  /\ extract = "extract_output_from_bins"
  /\ arg_items.isdict
  /\ arg_valueof = "None"
  /\ Len(items) >= 2
  /\ \E j \in DOMAIN items : ValueOf(valueof, items[j]) # items[j]

(* ----------------------- properties of the merge ----------------------- *)
Spread(sums) == MaxOf(sums) - MinOf(sums)

\* C12: merge pairing rule. While a merge iteration combines, with A the
\* first popped partition as it was popped and B the second popped one,
\* every pair j already combined has put B's bin j behind A's bin K-1-j,
\* with sum A.sums[K-1-j] + B.sums[j]; the other bins of A are as popped.
\* After the K combines every bin of B has been transferred exactly once.
C12_Pairing ==
  pc = "combine" =>
    LET A == bin1_before
        B == Obj(bin2)
        C == Obj(bin1)
    IN /\ \A j \in 0..(numbins - 1) :
            IF j < i
              THEN /\ C.bins[numbins - j] = A.bins[numbins - j] \o B.bins[j + 1]
                   /\ C.sums[numbins - j] = A.sums[numbins - j] + B.sums[j + 1]
              ELSE /\ C.bins[numbins - j] = A.bins[numbins - j]
                   /\ C.sums[numbins - j] = A.sums[numbins - j]
       /\ i = numbins =>
            \A x \in ItemSet :
              PartitionCount(C, x) = PartitionCount(A, x) + PartitionCount(B, x)

C12_Witness ==
  /\ pc = "combine"
  /\ i = numbins
  /\ numbins >= 3
  /\ PartitionSize(bin1_before) >= 2
  /\ PartitionSize(Obj(bin2)) >= 2
  /\ Obj(bin1).sums # bin1_before.sums

\* a tuple pushed by the seeding loop (the others are pushed by a merge)
IsSeed(e) == e.count < Len(items)

\* extremeness of a heap tuple e whose partition is p: the item's value for
\* a seed, the spread of the partition for a merged one
Extremeness(e, p) ==
  IF IsSeed(e) THEN ValueOf(valueof, items[e.count + 1]) ELSE Spread(p.sums)

\* C13: selection order. The two tuples a merge iteration pops are the two
\* most extreme pending ones, the first at least as extreme as the second;
\* among equally extreme tuples the one pushed earlier is popped first. In
\* the first iteration these are the two largest-valued items.
C13_SelectionOrder ==
  pc = "combine" =>
    LET x1 == Extremeness(popped[1], bin1_before)
        x2 == Extremeness(popped[2], Obj(bin2))
    IN /\ x1 >= x2
       /\ x1 = x2 => popped[1].count < popped[2].count
       /\ \A f \in partitions :
            /\ x2 >= Extremeness(f, Obj(f.bin))
            /\ x2 = Extremeness(f, Obj(f.bin)) => popped[2].count < f.count
       /\ k = 0 =>
            \A j \in DOMAIN items :
              j - 1 \notin {popped[1].count, popped[2].count} =>
                ValueOf(valueof, items[j]) <= x2

C13_Witness ==
  /\ pc = "combine"
  /\ k >= 1
  /\ partitions # {}
  /\ ~ IsSeed(popped[1])
  /\ IsSeed(popped[2])
  /\ \E f \in partitions :
       Extremeness(f, Obj(f.bin)) = Extremeness(popped[2], Obj(bin2))

\* the keys of the tuples in the heap
C14_Keys ==
  \A e \in partitions :
    /\ IsSeed(e) =>
         /\ e.key = 0 - ValueOf(valueof, items[e.count + 1])
         /\ Obj(e.bin) = add_item_to_bin(bins, items[e.count + 1], numbins - 1)
    /\ ~ IsSeed(e) => e.key = 0 - Spread(Obj(e.bin).sums)
    /\ e.sums = Obj(e.bin).sums

\* C14: key consistency. A tuple in the heap has key -valueof(item) when its
\* partition is an unmerged seed and -(max sum - min sum) of its partition
\* when it was pushed by a merge, and no step changes the partition of a
\* tuple that stays in the heap.
C14_KeyConsistency ==
  /\ [] C14_Keys
  /\ [][\A e \in partitions \cap partitions' :
          objs'[e.bin + 1] = objs[e.bin + 1]]_vars

C14_Witness ==
  /\ pc = "loop"
  /\ k = 1
  /\ \E e \in partitions :
       /\ ~ IsSeed(e)
       /\ e.key < 0
       /\ MinOf(Obj(e.bin).sums) > 0
  /\ \E f \in partitions : IsSeed(f)

\* the sequence numbers of the tuples popped so far, in the order popped
PoppedCounts ==
  [j \in 1..(2 * Len(trace)) |-> trace[(j + 1) \div 2][2 - (j % 2)]]

ValidInput ==
  /\ Len(arg_items.elems) >= 1
  /\ \A j \in DOMAIN items : ValueOf(valueof, items[j]) >= 0

\* C15: total order without comparing partitions. Sequence numbers are
\* handed out in increasing order, 0..n-1 to the seeds in caller order and
\* n..2n-2 to merged tuples; no two tuples ever pushed share one, so any two
\* tuples in the heap are ordered by (key, sequence number); with valid
\* input the merge loop raises no error.
C15_TotalOrder ==
  /\ pc = "seed" => heap_count = it
  /\ pc \in {"loop", "combine", "done"} => heap_count = Len(items) + k
  /\ \A e \in partitions :
       /\ e.count \in 0..(heap_count - 1)
       /\ e.count <= 2 * Len(items) - 2
       /\ IsSeed(e) => Obj(e.bin).bins[numbins] = <<items[e.count + 1]>>
       /\ \A j \in DOMAIN PoppedCounts : PoppedCounts[j] # e.count
  /\ IsInjective(PoppedCounts)
  /\ \A e, f \in partitions :
       e # f => /\ e.count # f.count
                /\ tuple_lt(e, f) \/ tuple_lt(f, e)
  /\ ValidInput => pc # "raised"

C15_Witness ==
  /\ pc = "loop"
  /\ k >= 1
  /\ ValidInput
  /\ \E e, f \in partitions :
       e.key = f.key /\ IsSeed(e) /\ ~ IsSeed(f)

\* C16: ownership. No two tuples in the heap hold the same partition
\* object; during a merge neither popped tuple is in the heap; the merge
\* pushes exactly one tuple, holding the first popped object; an object
\* popped second in a finished iteration is never in the heap again, never
\* popped or returned again, and never changes.
C16_Ownership ==
  /\ \A e, f \in partitions : e # f => e.bin # f.bin
  /\ pc = "combine" =>
       /\ bin1 # bin2
       /\ bin1 = popped[1].bin /\ bin2 = popped[2].bin
       /\ \A e \in partitions : e.bin \notin {bin1, bin2}
       /\ \A d \in dead : d.id \notin {bin1, bin2}
  /\ (pc \in {"loop", "done"} /\ k >= 1) =>
       /\ popped[1] \notin partitions /\ popped[2] \notin partitions
       /\ Cardinality({f \in partitions : f.count >= heap_count - 1}) = 1
       /\ \E e \in partitions :
            e.count = heap_count - 1 /\ e.bin = popped[1].bin
       /\ \E d \in dead : d.id = popped[2].bin
  /\ \A d \in dead :
       /\ Obj(d.id) = d.obj
       /\ \A e \in partitions : e.bin # d.id
  /\ pc = "done" => \A d \in dead : final_partition # d.id
  /\ Cardinality(dead) = IF pc \in {"loop", "combine", "done", "returned"}
                           THEN k ELSE 0

C16_Witness ==
  /\ pc = "combine"
  /\ i >= 1
  /\ \E d \in dead : PartitionSize(d.obj) >= 2

NonNegative == \A j \in DOMAIN items : ValueOf(valueof, items[j]) >= 0

\* the tuple pushed by the last finished merge iteration
LastPushed == CHOOSE e \in partitions : e.count = heap_count - 1

\* C17: spread never grows through a merge. For non-negative item values
\* the spread of a merged, re-sorted partition is at most the larger spread
\* of the two partitions it was merged from, its key is not smaller than
\* the first key popped in that iteration, and the spread of the returned
\* partition is at most the largest item value.
C17_SpreadBound ==
  NonNegative =>
    /\ (pc \in {"loop", "done"} /\ k >= 1) =>
         LET a == Spread(bin1_before.sums)
             b == Spread(Obj(bin2).sums)
         IN /\ Spread(Obj(LastPushed.bin).sums) <= (IF a >= b THEN a ELSE b)
            /\ LastPushed.key >= popped[1].key
    /\ pc = "done" =>
         \E j \in DOMAIN items :
           Spread(Obj(final_partition).sums) <= ValueOf(valueof, items[j])

C17_Witness ==
  /\ pc = "loop"
  /\ k = 3
  /\ NonNegative
  /\ ~ IsSeed(popped[1])
  /\ ~ IsSeed(popped[2])
  /\ Spread(Obj(LastPushed.bin).sums) > 0
  /\ numbins >= 2

\* the caller's bins and the seeds while kk runs and when it has returned
C18_Template ==
  pc \notin {"start", "other", "done_other"} /\ algorithm = "kk" =>
    /\ bins = create_empty_bins(numbins, valueof)
    /\ \A b \in 1..numbins : bins.bins[b] = <<>> /\ bins.sums[b] = 0
    /\ Len(objs) = 1 + it
    /\ \A e \in partitions : e.bin \in 1..it
    /\ pc = "combine" => bin1 \in 1..it /\ bin2 \in 1..it
    /\ pc \in {"done", "returned"} => final_partition \in 1..it

====
